---- MODULE Spec2Model ----
(***************************************************************************)
(* Model of src/lib/util/Cron.js: the Cron class that normalizes a cron    *)
(* pattern, parses its five fields into number arrays and searches the     *)
(* next matching date.                                                     *)
(*                                                                         *)
(* Representation.                                                         *)
(*  - A string is a tuple of one-character strings; a symbolic token       *)
(*    (mon, feb, ...) and a predefined alias (@daily, ...) is one atom.    *)
(*    A pattern is the tuple of its space-separated fields, already in     *)
(*    lower case (constructor, line 14).                                   *)
(*  - A Date is its epoch time in SECONDS (the code works in milliseconds; *)
(*    every amount the code adds is a whole number of seconds, and the     *)
(*    seconds of a reference moment stand for its whole sub-minute part).  *)
(*  - undefined (an unmatched capture group, a read past the end of an     *)
(*    array) is Undef; NaN is NaN.                                         *)
(***************************************************************************)
EXTENDS Integers, Sequences, FiniteSets, TLC

(***************************************************************************)
(* Bounds of the model.                                                    *)
(***************************************************************************)
\* days of the modelled calendar window, counted from WindowStart
Horizon == 66
\* reference moments are drawn from the first RefDays days of the window
RefDays == 4
\* the numbers that range texts are built from are 0..MaxNum
MaxNum == 11
\* the steps that stepped range texts are built from are 0..MaxStep
MaxStep == 3
\* first day of the window, in days since 1970-01-01: Monday 2024-01-29
WindowStart == 19751

(***************************************************************************)
(* Values of JavaScript that are not numbers.                              *)
(***************************************************************************)
Undef == <<>>
NaN == -1

Min(S) == CHOOSE x \in S : \A y \in S : x <= y

SeqRange(s) == {s[i] : i \in 1..Len(s)}

(***************************************************************************)
(* Strings of digits: Number -> String (Array.prototype.join) and          *)
(* String -> Number (parseInt).                                            *)
(***************************************************************************)
DigitChars == <<"0", "1", "2", "3", "4", "5", "6", "7", "8", "9">>

IsDigit(c) == c \in SeqRange(DigitChars)

DigitVal(c) == CHOOSE d \in 0..9 : DigitChars[d + 1] = c

RECURSIVE ToDigits(_)
ToDigits(n) ==
  IF n < 10 THEN <<DigitChars[n + 1]>>
  ELSE Append(ToDigits(n \div 10), DigitChars[(n % 10) + 1])

RECURSIVE DigitsValue(_)
DigitsValue(s) ==
  IF Len(s) = 0 THEN 0
  ELSE DigitsValue(SubSeq(s, 1, Len(s) - 1)) * 10 + DigitVal(s[Len(s)])

\* parseInt of a capture group: a run of digits, or undefined (-> NaN)
parseInt(s) == IF s = Undef THEN NaN ELSE DigitsValue(s)

\* a || b on numbers: 0 and NaN are falsy
OrElse(a, b) == IF a = NaN \/ a = 0 THEN b ELSE a

(***************************************************************************)
(* constants.js (CRON): allowedNum, partRegex, day, predefined, tokens.    *)
(***************************************************************************)
\* [min, max] of the field at index id (0 = minute ... 4 = day of week)
allowedNum == <<<<0, 59>>, <<0, 23>>, <<1, 31>>, <<1, 12>>, <<0, 6>>>>

\* one day, in seconds
day == 86400

predefined ==
  [a \in {"@annually", "@yearly", "@monthly", "@weekly", "@daily", "@hourly"} |->
     CASE a \in {"@annually", "@yearly"} -> <<<<"0">>, <<"0">>, <<"1">>, <<"1">>, <<"*">>>>
       [] a = "@monthly" -> <<<<"0">>, <<"0">>, <<"1">>, <<"*">>, <<"*">>>>
       [] a = "@weekly"  -> <<<<"0">>, <<"0">>, <<"*">>, <<"*">>, <<"0">>>>
       [] a = "@daily"   -> <<<<"0">>, <<"0">>, <<"*">>, <<"*">>, <<"*">>>>
       [] a = "@hourly"  -> <<<<"0">>, <<"*">>, <<"*">>, <<"*">>, <<"*">>>>]

tokens ==
  [t \in {"jan", "feb", "mar", "dec", "sun", "mon", "tue", "sat"} |->
     CASE t = "jan" -> 1 [] t = "feb" -> 2 [] t = "mar" -> 3 [] t = "dec" -> 12
       [] t = "sun" -> 0 [] t = "mon" -> 1 [] t = "tue" -> 2 [] t = "sat" -> 6]

AllDigits(s) == Len(s) >= 1 /\ \A i \in 1..Len(s) : IsDigit(s[i])

\* partRegex.exec(cronPart): ok is FALSE when exec returns null, else the
\* capture groups wild, min, max, step (Undef when the group did not match).
\* Grammar: ^(?:(\*)|(\d+)(?:-(\d+))?)(?:\/(\d+))?$
partRegex(cronPart) ==
  LET slashes == {i \in 1..Len(cronPart) : cronPart[i] = "/"}
      head == IF slashes = {} THEN cronPart
              ELSE SubSeq(cronPart, 1, Min(slashes) - 1)
      step == IF slashes = {} THEN Undef
              ELSE SubSeq(cronPart, Min(slashes) + 1, Len(cronPart))
      dashes == {i \in 1..Len(head) : head[i] = "-"}
      lo == IF dashes = {} THEN head ELSE SubSeq(head, 1, Min(dashes) - 1)
      hi == IF dashes = {} THEN Undef
            ELSE SubSeq(head, Min(dashes) + 1, Len(head))
      wild == head = <<"*">>
  IN  [ok   |-> /\ slashes = {} \/ AllDigits(step)
                /\ \/ wild
                   \/ AllDigits(lo) /\ (dashes = {} \/ AllDigits(hi)),
       wild |-> IF wild THEN <<"*">> ELSE Undef,
       min  |-> IF wild THEN Undef ELSE lo,
       max  |-> IF wild THEN Undef ELSE hi,
       step |-> step]

(***************************************************************************)
(* Cron._range, Cron._parsePart, Cron._parseString.                        *)
(***************************************************************************)
_range(min, max, step) ==
  LET lo == IF max < min THEN max ELSE min
      hi == IF max < min THEN min ELSE max
      length == ((hi - lo) \div step) + 1
  IN  [i \in 1..length |-> lo + ((i - 1) * step)]

\* String.prototype.split on a one-character separator
RECURSIVE Split(_, _)
Split(s, sep) ==
  LET at == {i \in 1..Len(s) : s[i] = sep}
  IN  IF at = {} THEN <<s>>
      ELSE <<SubSeq(s, 1, Min(at) - 1)>> \o Split(SubSeq(s, Min(at) + 1, Len(s)), sep)

\* [...set].sort((a, b) => a - b)
RECURSIVE SortedSeq(_)
SortedSeq(S) ==
  IF S = {} THEN <<>> ELSE <<Min(S)>> \o SortedSeq(S \ {Min(S)})

\* a part without a comma (lines 107-111); id is 0-based as in the code
ParseSingle(cronPart, id) ==
  LET m == partRegex(cronPart)
      min == IF m.wild # Undef THEN ToDigits(allowedNum[id + 1][1]) ELSE m.min
      max == IF m.wild # Undef THEN ToDigits(allowedNum[id + 1][2]) ELSE m.max
  IN  IF m.wild = Undef /\ max = Undef /\ m.step = Undef
      THEN <<parseInt(min)>>
      ELSE _range(parseInt(min),
                  OrElse(parseInt(max), allowedNum[id + 1][2]),
                  OrElse(parseInt(m.step), 1))

\* does parsing the part return (TRUE) or throw on a null exec (FALSE)
PartMatches(cronPart) ==
  \A p \in SeqRange(Split(cronPart, ",")) : partRegex(p).ok

_parsePart(cronPart, id) ==
  IF "," \in SeqRange(cronPart)
  THEN LET parts == Split(cronPart, ",")
       IN  SortedSeq(UNION {SeqRange(ParseSingle(parts[k], id)) : k \in 1..Len(parts)})
  ELSE ParseSingle(cronPart, id)

_parseString(cron) == [i \in 1..5 |-> _parsePart(cron[i], i - 1)]

(***************************************************************************)
(* Date: the UTC calendar of an epoch time in seconds, and Date.UTC.       *)
(***************************************************************************)
\* civil date of a count of days since 1970-01-01 (proleptic Gregorian)
CivilFromDays(n) ==
  LET z == n + 719468
      era == z \div 146097
      doe == z - (era * 146097)
      yoe == (doe - (doe \div 1460) + (doe \div 36524) - (doe \div 146096)) \div 365
      doy == doe - ((365 * yoe) + (yoe \div 4) - (yoe \div 100))
      mp == ((5 * doy) + 2) \div 153
      m == IF mp < 10 THEN mp + 3 ELSE mp - 9
  IN  [year  |-> yoe + (era * 400) + (IF m <= 2 THEN 1 ELSE 0),
       month |-> m,
       date  |-> doy - (((153 * mp) + 2) \div 5) + 1]

\* days since 1970-01-01 of a civil date (month 1-12)
DaysFromCivil(year, month, date) ==
  LET y == IF month <= 2 THEN year - 1 ELSE year
      era == y \div 400
      yoe == y - (era * 400)
      mp == IF month > 2 THEN month - 3 ELSE month + 9
      doy == (((153 * mp) + 2) \div 5) + date - 1
      doe == (yoe * 365) + (yoe \div 4) - (yoe \div 100) + doy
  IN  (era * 146097) + doe - 719468

getUTCFullYear(t) == CivilFromDays(t \div day).year
\* 0-11
getUTCMonth(t) == CivilFromDays(t \div day).month - 1
\* 1-31
getUTCDate(t) == CivilFromDays(t \div day).date
\* 0-6, Sunday = 0; 1970-01-01 was a Thursday
getUTCDay(t) == ((t \div day) + 4) % 7
getUTCHours(t) == (t % day) \div 3600
getUTCMinutes(t) == (t % 3600) \div 60

\* Date.UTC(year, month, date, hour, minute): month is 0-11; values beyond
\* their range carry over into the next unit
DateUTC(year, month, date, hour, minute) ==
  ((DaysFromCivil(year, month + 1, 1) + (date - 1)) * day) + (hour * 3600) + (minute * 60)

(***************************************************************************)
(* Cron._normalize.                                                        *)
(***************************************************************************)
\* `cron in predefined`: the whole pattern is one alias
IsPredefined(cron) ==
  Len(cron) = 1 /\ Len(cron[1]) = 1 /\ cron[1][1] \in DOMAIN predefined

\* cron.replace(tokensRegex, match => tokens[match]) on one field
RECURSIVE ReplaceTokens(_)
ReplaceTokens(val) ==
  IF Len(val) = 0 THEN <<>>
  ELSE (IF val[1] \in DOMAIN tokens THEN ToDigits(tokens[val[1]]) ELSE <<val[1]>>)
       \o ReplaceTokens(Tail(val))

\* the value of the field at index i (0-based) of the moment now (lines 65-71)
CurrentValue(i, now) ==
  CASE i = 0 -> getUTCMinutes(now)
    [] i = 1 -> getUTCHours(now)
    [] i = 2 -> getUTCDate(now)
    [] i = 3 -> getUTCMonth(now)
    [] i = 4 -> getUTCDay(now)

\* the values Math.floor(Math.random() * (allowedNum[i][1] + 1)) can take
RandomValues(i) == 0..((allowedNum[i + 1][2] + 1) - 1)

\* now is the clock reading of line 61; random[k] is the draw of line 63
\* for the field at position k
_normalize(cron, now, random) ==
  IF IsPredefined(cron) THEN predefined[cron[1][1]]
  ELSE [k \in 1..Len(cron) |->
          ReplaceTokens(
            IF cron[k] = <<"h">> THEN ToDigits(random[k])
            ELSE IF cron[k] = <<"?">> THEN ToDigits(CurrentValue(k - 1, now))
            ELSE cron[k])]

(***************************************************************************)
(* The patterns and moments the model is run on.                           *)
(***************************************************************************)
Star == <<"*">>
Num(n) == ToDigits(n)
Dash(a, b) == Num(a) \o <<"-">> \o Num(b)
Over(text, step) == text \o <<"/">> \o Num(step)
Comma(s, t) == s \o <<",">> \o t

\* the texts of one field that the parser is run on
FieldTexts ==
  {Star}
    \cup {Num(a) : a \in 0..MaxNum}
    \cup {Dash(a, b) : a, b \in 0..MaxNum}
    \cup {Over(Dash(a, b), s) : a, b \in 0..MaxNum, s \in 0..MaxStep}
    \cup {Over(Num(a), s) : a \in 0..MaxNum, s \in 0..MaxStep}
    \cup {Over(Star, s) : s \in 0..MaxStep}
    \cup {Comma(Num(5), Comma(Num(1), Num(3))), Comma(Dash(3, 1), Comma(Num(2), Num(7))),
          <<"h">>, <<"?">>, <<"mon">>, <<"feb">>,
          Dash(1, 2) \o <<"-">> \o Num(3), <<"1", "/">>, <<"1", ",", ",", "2">>, <<"x">>}

\* one field set, the others wildcards
ParseCrons ==
  {[k \in 1..5 |-> IF k = i THEN t ELSE Star] : i \in 1..5, t \in FieldTexts}

MinuteTexts == {Num(0), Num(30), Comma(Num(0), Num(30)), Comma(Num(15), Num(45)), Over(Star, 20)}
HourTexts == {Num(0), Num(14), Comma(Num(9), Num(14)), Dash(10, 12), Star}
DayTexts ==
  {<<Star, Star, Star>>, <<Star, Star, <<"mon">>>>, <<Num(31), Star, Star>>}

TimeCrons ==
  {<<m, h>> \o d : m \in MinuteTexts, h \in HourTexts, d \in DayTexts}

DayCrons ==
  {<<Num(0), Num(9)>> \o d :
     d \in {<<Num(31), Num(2), Star>>, <<Num(29), <<"feb">>, Star>>,
            <<Num(1), Star, Star>>, <<Star, <<"mar">>, <<"sun">>>>,
            <<Dash(1, 7), Star, <<"mon">>>>, <<Star, Star, Comma(<<"sat">>, <<"sun">>)>>}}

OtherCrons ==
  {<<<<"@daily">>>>, <<<<"@hourly">>>>, <<<<"@monthly">>>>,
   <<<<"?">>, <<"?">>, Star, Star, Star>>,
   <<Num(0), Num(9), <<"?">>, <<"?">>, <<"?">>>>,
   <<Num(0), Num(9), Star, <<"?">>, Star>>,
   <<<<"h">>, Num(9), Star, Star, Star>>,
   <<Num(0), <<"h">>, Star, Star, Star>>,
   <<Num(0), Num(0), <<"h">>, Star, Star>>,
   <<Num(70), Star, Star, Star, Star>>,
   <<Num(0), Num(25), Star, Star, Star>>,
   <<Num(0), Num(9), Star, Star>>,
   <<Num(0), <<"9", "-">>, Star, Star, Star>>}

Crons == TimeCrons \cup DayCrons \cup OtherCrons

\* the patterns the termination of next() is checked on
LiveCrons ==
  DayCrons
    \cup {<<Comma(Num(15), Num(45)), Comma(Num(9), Num(14))>> \o d : d \in DayTexts}
    \cup {<<<<"@daily">>>>,
          <<Num(0), <<"h">>, Star, Star, Star>>,
          <<Num(0), Num(9), Star, <<"?">>, Star>>,
          <<Num(0), Num(9), Star, Star>>}

\* the clock readings at construction: Wed 2024-01-31 23:59:00,
\* Thu 2024-02-29 10:15:30, Sun 2024-03-31 00:00:00 (for the first window)
ConstructMoments ==
  {((WindowStart + 2) * day) + 86340, ((WindowStart + 31) * day) + 36930,
   (WindowStart + 62) * day}

\* times of day of the reference moments: 00:00:00, 10:15:30, 10:45:00,
\* 14:29:00, 14:30:00, 23:58:59, 23:59:00
RefTimes == {0, 36930, 38700, 52140, 52200, 86339, 86340}

RefMoments == {((WindowStart + d) * day) + t : d \in 0..(RefDays - 1), t \in RefTimes}

\* the last second of the window
WindowEnd == ((WindowStart + Horizon) * day) - 1

(***************************************************************************)
(* State.                                                                  *)
(***************************************************************************)
VARIABLES
  pc,             \* "new", "error" (the constructor threw), "ready", "next", "done"
  cron,           \* this.cron, as its fields
  constructedAt,  \* the clock reading of _normalize
  normalized,     \* this.normalized, as its fields
  minutes, hours, days, months, dows,
  ref, origin0,   \* the arguments of the caller's call of next()
  zDay, origin,   \* the arguments of the running call of next()
  result          \* the Date next() returned

vars == <<pc, cron, constructedAt, normalized, minutes, hours, days, months, dows,
          ref, origin0, zDay, origin, result>>

schedule == <<minutes, hours, days, months, dows>>
call == <<ref, origin0, zDay, origin, result>>

InitWith(patterns) ==
  /\ pc = "new"
  /\ cron \in patterns
  /\ constructedAt = 0
  /\ normalized = <<>>
  /\ minutes = <<>> /\ hours = <<>> /\ days = <<>> /\ months = <<>> /\ dows = <<>>
  /\ ref = 0 /\ origin0 = FALSE /\ zDay = 0 /\ origin = FALSE /\ result = 0

Init == InitWith(Crons)

InitParse == InitWith(ParseCrons \cup Crons)

InitLive == InitWith(LiveCrons)

(***************************************************************************)
(* constructor (lines 13-17).                                              *)
(***************************************************************************)
\* the clock is read for every pattern that is no alias; its value is used
\* only by a `?` field, so only those patterns are run on several readings
ClockReadings(pattern) ==
  IF \E k \in 1..Len(pattern) : pattern[k] = <<"?">> THEN ConstructMoments
  ELSE {Min(ConstructMoments)}

\* one draw per `h` field
DrawsAt(pattern, k) ==
  IF k <= Len(pattern) /\ pattern[k] = <<"h">> THEN RandomValues(k - 1) ELSE {0}

RandomDraws(pattern) ==
  {<<r1, r2, r3, r4, r5>> :
     r1 \in DrawsAt(pattern, 1), r2 \in DrawsAt(pattern, 2), r3 \in DrawsAt(pattern, 3),
     r4 \in DrawsAt(pattern, 4), r5 \in DrawsAt(pattern, 5)}

\* _parseString returns: five parts, each matching partRegex
Parses(pattern) ==
  Len(pattern) = 5 /\ \A k \in 1..5 : PartMatches(pattern[k])

Constructor ==
  /\ pc = "new"
  /\ \E now \in ClockReadings(cron), random \in RandomDraws(cron) :
       LET n == _normalize(cron, now, random)
           parsed == _parseString(n)
       IN  /\ Parses(n)
           /\ constructedAt' = now
           /\ normalized' = n
           /\ minutes' = parsed[1]
           /\ hours' = parsed[2]
           /\ days' = parsed[3]
           /\ months' = parsed[4]
           /\ dows' = parsed[5]
           /\ pc' = "ready"
  /\ UNCHANGED <<cron, call>>

ConstructorThrows ==
  /\ pc = "new"
  /\ \E now \in ClockReadings(cron), random \in RandomDraws(cron) :
       LET n == _normalize(cron, now, random)
       IN  /\ ~Parses(n)
           /\ constructedAt' = now
           /\ normalized' = n
           /\ pc' = "error"
  /\ UNCHANGED <<cron, schedule, call>>

(***************************************************************************)
(* next (lines 26-50).  One action per way a call of next() ends: the      *)
(* three recursive calls and the return.  A recursive call replaces the    *)
(* running call: the caller returns what the callee returns.               *)
(***************************************************************************)
\* the caller's call schedule.next(zDay, origin)
Call ==
  /\ pc = "ready"
  /\ \E z \in RefMoments, o \in BOOLEAN :
       /\ ref' = z /\ origin0' = o
       /\ zDay' = z /\ origin' = o
  /\ pc' = "next"
  /\ UNCHANGED <<cron, constructedAt, normalized, schedule, result>>

\* line 27, negated: the day of z matches days, months and dows
Qualifies(z) ==
  /\ getUTCDate(z) \in SeqRange(days)
  /\ (getUTCMonth(z) + 1) \in SeqRange(months)
  /\ getUTCDay(z) \in SeqRange(dows)

\* arr.findIndex(x => x >= v): 0-based, -1 when there is none
FindIndexGE(arr, v) ==
  IF \E i \in 1..Len(arr) : arr[i] >= v
  THEN Min({i \in 1..Len(arr) : arr[i] >= v}) - 1
  ELSE -1

\* line 33
Now(z) == z + 60
\* line 34
hourIndex(z) == FindIndexGE(hours, getUTCHours(Now(z)))
\* line 38
minuteIndex(z) == FindIndexGE(minutes, getUTCMinutes(Now(z)))

\* lines 29, 41, 44: the hour of the returned date (0-based index + 1)
hour(z, o) ==
  IF o
  THEN IF minuteIndex(z) = -1 THEN hours[(hourIndex(z) + 1) + 1]
       ELSE hours[hourIndex(z) + 1]
  ELSE hours[1]

\* the minute of now taken for the minute found in minutes
minute_OfNow(z, o) ==
  IF o /\ minuteIndex(z) # -1 THEN getUTCMinutes(Now(z)) ELSE minutes[1]

\* lines 30, 45: the minute of the returned date
minute(z, o) ==
  IF o /\ minuteIndex(z) # -1 THEN minutes[minuteIndex(z) + 1] ELSE minutes[1]

\* the recursive call made on the same day
NextDay_SameDay(z) == z

\* the recursive call passing its own origin on
NextOrigin_Inherited(o) == o

\* the arguments of this.next(new Date(zDay.getTime() + day), false)
NextDay(z) == z + day

NextOrigin(o) == FALSE

\* the recursive call; the calendar of the model ends at WindowEnd
Recurse ==
  /\ NextDay(zDay) <= WindowEnd
  /\ zDay' = NextDay(zDay)
  /\ origin' = NextOrigin(origin)
  /\ UNCHANGED <<pc, cron, constructedAt, normalized, schedule, ref, origin0, result>>

\* line 27
NextSkipDay ==
  /\ pc = "next"
  /\ ~Qualifies(zDay)
  /\ Recurse

\* line 36
NextHoursExhausted ==
  /\ pc = "next"
  /\ Qualifies(zDay)
  /\ origin
  /\ hourIndex(zDay) = -1
  /\ Recurse

\* lines 40-42: typeof hours[hourIndex + 1] === 'undefined'
NextMinutesExhausted ==
  /\ pc = "next"
  /\ Qualifies(zDay)
  /\ origin
  /\ hourIndex(zDay) # -1
  /\ minuteIndex(zDay) = -1
  /\ (hourIndex(zDay) + 1) + 1 > Len(hours)
  /\ Recurse

\* does the call next(z, o) return at line 49
Returns(z, o) ==
  /\ Qualifies(z)
  /\ o => /\ hourIndex(z) # -1
          /\ minuteIndex(z) = -1 => (hourIndex(z) + 1) + 1 <= Len(hours)

\* line 49
NextReturn ==
  /\ pc = "next"
  /\ Returns(zDay, origin)
  /\ result' = DateUTC(getUTCFullYear(zDay), getUTCMonth(zDay), getUTCDate(zDay),
                       hour(zDay, origin), minute(zDay, origin))
  /\ pc' = "done"
  /\ UNCHANGED <<cron, constructedAt, normalized, schedule, ref, origin0, zDay, origin>>

NextCall == NextSkipDay \/ NextHoursExhausted \/ NextMinutesExhausted \/ NextReturn

Next == Constructor \/ ConstructorThrows \/ Call \/ NextCall

Spec == Init /\ [][Next]_vars

\* next() is synchronous: a running call always takes its next step
FairSpec == InitLive /\ [][Next]_vars /\ WF_vars(NextCall)

NextParse == Constructor \/ ConstructorThrows

ParseSpec == InitParse /\ [][NextParse]_vars

(***************************************************************************)
(* Vocabulary of the properties.                                           *)
(***************************************************************************)
\* every value of the five arrays lies in the domain of its field
InDomain ==
  \A i \in 1..5 : \A v \in SeqRange(schedule[i]) :
    allowedNum[i][1] <= v /\ v <= allowedNum[i][2]

StrictlyIncreasing(arr) == \A i \in 1..(Len(arr) - 1) : arr[i] < arr[i + 1]

\* the UTC day (days since 1970-01-01) of a moment
DayOf(t) == t \div day

\* the day n of the calendar (days since 1970-01-01, a Thursday) has its day
\* of month, month (1-12) and weekday (0-6, Sunday = 0) in days, months, dows
DayQualifies(n) ==
  /\ CivilFromDays(n).date \in SeqRange(days)
  /\ CivilFromDays(n).month \in SeqRange(months)
  /\ ((n + 4) % 7) \in SeqRange(dows)

\* the first hour of the schedule from hour h on is later than h
LaterHourFrom(h) ==
  /\ \E x \in SeqRange(hours) : x >= h
  /\ Min({x \in SeqRange(hours) : x >= h}) > h

\* the qualifying days of the window from day n on
QualifyingDays(n) == {q \in n..(WindowStart + Horizon - 1) : DayQualifies(q)}

\* the first qualifying day of the window after day n
FirstQualifyingDayAfter(n) ==
  CHOOSE q \in QualifyingDays(n + 1) : \A e \in (n + 1)..(q - 1) : ~DayQualifies(e)

\* the moment of day n at hour h and minute m
At(n, h, m) == (n * day) + (h * 3600) + (m * 60)

\* the search start of an origin call: reference + 1 minute, truncated
SearchStart(t) == ((t + 60) \div 60) * 60

\* the field at position i (1-5) of the pattern is the text
FieldIs(i, text) == i <= Len(cron) /\ cron[i] = text

\* t is a minute of the schedule
Fires(t) ==
  /\ t % 60 = 0
  /\ getUTCMinutes(t) \in SeqRange(minutes)
  /\ getUTCHours(t) \in SeqRange(hours)
  /\ DayQualifies(DayOf(t))

(***************************************************************************)
(* C1: an origin call on a schedule within its domains returns the         *)
(* smallest minute T >= reference + 1 minute (truncated to the minute)     *)
(* whose minute, hour, day of month, month and weekday are all in the      *)
(* schedule's sets; no earlier qualifying minute is skipped.               *)
(***************************************************************************)
C1_ReturnsSmallestOccurrence ==
  (pc = "done" /\ origin0 /\ InDomain) =>
     /\ result >= SearchStart(ref)
     /\ Fires(result)
     /\ ~ \E n \in DayOf(SearchStart(ref))..DayOf(result) :
            /\ DayQualifies(n)
            /\ \E h \in SeqRange(hours), m \in SeqRange(minutes) :
                 At(n, h, m) >= SearchStart(ref) /\ At(n, h, m) < result

(***************************************************************************)
(* C2: whenever next() returns, on an origin or a non-origin call, on a    *)
(* schedule within its domains, the returned date's UTC minute, hour, day  *)
(* of month, month (1-12) and weekday are members of minutes, hours, days, *)
(* months and dows, and it has no seconds.                                 *)
(***************************************************************************)
C2_ReturnedDateMatches ==
  (pc = "done" /\ InDomain) =>
     /\ getUTCMinutes(result) \in SeqRange(minutes)
     /\ getUTCHours(result) \in SeqRange(hours)
     /\ getUTCDate(result) \in SeqRange(days)
     /\ (getUTCMonth(result) + 1) \in SeqRange(months)
     /\ getUTCDay(result) \in SeqRange(dows)
     /\ result % 60 = 0

\* an origin call with a reference inside a minute returned on the reference
\* day at a minute found by the search, not the first of the schedule
C2_Witness ==
  /\ pc = "done" /\ InDomain /\ origin0
  /\ ref % 60 # 0
  /\ zDay = ref
  /\ getUTCMinutes(result) # minutes[1]

(***************************************************************************)
(* C3: for every pattern the constructor accepts, each of minutes, hours,  *)
(* days, months, dows is non-empty, strictly increasing and within         *)
(* [0,59], [0,23], [1,31], [1,12], [0,6].                                  *)
(***************************************************************************)
C3_ParsedArraysWellFormed ==
  pc = "ready" =>
     /\ \A i \in 1..5 : Len(schedule[i]) >= 1 /\ StrictlyIncreasing(schedule[i])
     /\ InDomain

(***************************************************************************)
(* C4: at every field position, for a > b >= 0, the reversed range a-b     *)
(* parses to the same array as b-a: the integers from b to a.              *)
(***************************************************************************)
C4_ReversedRangeIsSwappedRange ==
  pc = "ready" =>
     \A i \in 1..5 : \A a, b \in 0..MaxNum :
        (a > b /\ FieldIs(i, Dash(a, b))) =>
           /\ schedule[i] = _parsePart(Dash(b, a), i - 1)
           /\ schedule[i] = [k \in 1..((a - b) + 1) |-> b + (k - 1)]

(***************************************************************************)
(* C5: at every field position, for 0 <= min <= max and step >= 1, the     *)
(* stepped range min-max/step parses to floor((max-min)/step)+1 elements:  *)
(* min, min+step, min+2*step, ..., none greater than max.                  *)
(***************************************************************************)
C5_SteppedRangeCount ==
  pc = "ready" =>
     \A i \in 1..5 : \A a, b \in 0..MaxNum : \A s \in 1..MaxStep :
        (a <= b /\ FieldIs(i, Over(Dash(a, b), s))) =>
           /\ Len(schedule[i]) = ((b - a) \div s) + 1
           /\ \A k \in 1..Len(schedule[i]) :
                schedule[i][k] = a + ((k - 1) * s) /\ schedule[i][k] <= b

(***************************************************************************)
(* C6: on an origin call whose reference day qualifies, if the first hour  *)
(* of hours that is >= the hour of now (reference + 1 minute) is later     *)
(* than now's hour, next() returns that hour of the reference day with the *)
(* smallest minute of minutes, whatever now's minute is.                   *)
(***************************************************************************)
C6_LaterHourTakesFirstMinute ==
  (/\ pc = "done" /\ origin0
   /\ DayQualifies(DayOf(ref))
   /\ LaterHourFrom(getUTCHours(ref + 60)))
  => result = At(DayOf(ref),
                 Min({x \in SeqRange(hours) : x >= getUTCHours(ref + 60)}),
                 minutes[1])

(***************************************************************************)
(* C7: a call of next() for which a day of the schedule lies ahead         *)
(* returns: the day-by-day recursion reaches a qualifying day and stops    *)
(* there.  In the calendar a qualifying day always comes again; in the     *)
(* window of the model "a day lies ahead" is: a later day of the window    *)
(* qualifies, or the day of a non-origin call qualifies.                   *)
(***************************************************************************)
QualifyingDayAhead ==
  /\ pc = "next"
  /\ \/ QualifyingDays(DayOf(zDay) + 1) # {}
     \/ DayQualifies(DayOf(zDay)) /\ ~origin

C7_ReachesQualifyingDay ==
  QualifyingDayAhead ~> (pc = "done" /\ DayQualifies(DayOf(zDay)) /\ result >= At(DayOf(ref), 0, 0))

\* an origin call returned after at least two recursive calls
C7_Witness ==
  pc = "done" /\ origin0 /\ zDay >= ref + (2 * day) /\ InDomain

(***************************************************************************)
(* C8: a `?` field parses to the singleton of the construction moment's    *)
(* component in the numbering next() compares against (minute 0-59, hour   *)
(* 0-23, day of month 1-31, month 1-12, weekday 0-6); so the month array   *)
(* is <<month 1-12>>, and with `?` in the three day fields the             *)
(* construction day qualifies.                                             *)
(***************************************************************************)
C8_CurrentValueNumbering ==
  pc = "ready" =>
     /\ FieldIs(1, <<"?">>) => minutes = <<getUTCMinutes(constructedAt)>>
     /\ FieldIs(2, <<"?">>) => hours = <<getUTCHours(constructedAt)>>
     /\ FieldIs(3, <<"?">>) => days = <<getUTCDate(constructedAt)>>
     /\ FieldIs(4, <<"?">>) => months = <<getUTCMonth(constructedAt) + 1>>
     /\ FieldIs(5, <<"?">>) => dows = <<getUTCDay(constructedAt)>>
     /\ (\A i \in 3..5 : FieldIs(i, <<"?">>)) => DayQualifies(DayOf(constructedAt))

(***************************************************************************)
(* C9: when the reference day does not qualify, next() returns the first   *)
(* qualifying day after it at the smallest hour and minute of the          *)
(* schedule, whatever the reference's time of day; every recursive call    *)
(* is made a whole number of days later and is a non-origin call.          *)
(***************************************************************************)
C9_SkipsToFirstQualifyingDay ==
  /\ (pc \in {"next", "done"} /\ zDay # ref) =>
        /\ ~origin
        /\ zDay > ref /\ (zDay - ref) % day = 0
  /\ (pc = "done" /\ ~DayQualifies(DayOf(ref))) =>
        LET q == FirstQualifyingDayAfter(DayOf(ref))
        IN  /\ result = At(q, hours[1], minutes[1])
            /\ InDomain =>
                 /\ DayOf(result) = q
                 /\ getUTCHours(result) = hours[1]
                 /\ getUTCMinutes(result) = minutes[1]

\* an origin call late on a non-qualifying day returned an earlier time of day
C9_Witness ==
  /\ pc = "done" /\ origin0 /\ InDomain
  /\ ~DayQualifies(DayOf(ref))
  /\ DayOf(result) > DayOf(ref) + 1
  /\ result % day < ref % day

(***************************************************************************)
(* C10: an origin call never returns a date earlier than or equal to the   *)
(* reference moment, also at 23:59, where reference + 1 minute is on the   *)
(* following day and the returned date is built from the reference day.    *)
(***************************************************************************)
C10_ReturnsAfterReference ==
  (pc = "done" /\ origin0) => result > ref

====
